---------------------------- MODULE Spec2Model ----------------------------
(***************************************************************************)
(* Caption-session state machine of Main/app.py (Streamlit script).        *)
(*                                                                         *)
(* The script is re-executed top to bottom on every user interaction; the  *)
(* session state (uploaded_images_data, file_uploader_key_counter) and the *)
(* widget values survive between runs.  A run is modelled by the handler   *)
(* that decides it (Clear All, batch replacement, empty-upload clear, info *)
(* message) or by the display loop, one step per displayed image.          *)
(*                                                                         *)
(* Strings are sequences of one-character strings.  ErrMark stands for the *)
(* leading glyph of every error string the program builds.                 *)
(* Image.open/convert (app.py:222) and PNG encoding (app.py:126) are taken *)
(* to succeed for every file the uploader accepts.  The user interacts     *)
(* only while no run is in progress; every interaction changes one widget. *)
(*                                                                         *)
(* Spec         one session, API key set in both sources                   *)
(* SpecKey      the same from process start, under every key configuration *)
(* SpecUnit     one call of generate_openai_captions in isolation          *)
(* SpecLocal    one render pass of llm-comfyui-captioning/app.py           *)
(* SpecSessions two sessions of Main/app.py with interleaved script runs   *)
(***************************************************************************)
EXTENDS Integers, Sequences, FiniteSets, TLC

VARIABLES
    uploaded_images_data,       \* st.session_state.uploaded_images_data
    file_uploader_key_counter,  \* st.session_state.file_uploader_key_counter
    uploader,                   \* the file_uploader widget: [key, files]
    enable_translation,         \* sidebar checkbox
    selected_language_code,     \* sidebar selectbox, as its language code
    selected_caption_style,     \* sidebar selectbox
    num_captions_to_generate,   \* sidebar slider
    button,                     \* the button whose click triggered this run
    pc,                         \* "idle", "run" (a script run is due), "display", "unit"
    img_idx,                    \* display loop index (1-based), 0 outside the loop
    run_cause,                  \* history: what started the current run
    gen_log,                    \* history: Generator calls made by the latest run
    translate_calls,            \* history: Translator calls per caption record and language
    events,                     \* history: number of user interactions so far
    unit,                       \* one isolated call of generate_openai_captions
    config,                     \* where an API key is set: [secrets, env]
    collection,                 \* utils/vectordb.py: documents of the "captions" collection
    local,                      \* one render pass of llm-comfyui-captioning/app.py
    sessions                    \* two browser sessions of Main/app.py, side by side

vars == <<uploaded_images_data, file_uploader_key_counter, uploader,
          enable_translation, selected_language_code, selected_caption_style,
          num_captions_to_generate, button, pc, img_idx, run_cause, gen_log,
          translate_calls, events, unit, config, collection, local, sessions>>

\* what the script runs of one Main/app.py session never write
aux == <<unit, config, collection, local, sessions>>

---------------------------------------------------------------------------
(* Bounds *)

MaxFiles == 2      \* files in one uploader selection
MaxCaptions == 2   \* captions an image may hold before 'Generate Another' is no longer clicked
MaxN == 2          \* largest slider value explored (the slider allows 1..SliderMax)
MaxEvents == 3     \* user interactions in one session
MaxLen == 4        \* length of a raw model output in the isolated Generator calls

SliderMax == 10

---------------------------------------------------------------------------
(* Strings *)

ErrMark == "ERR"
NL == "\n"

Digits == {"1", "2"}
isdigit(c) == c \in Digits
isspace(c) == c \in {" ", NL}

RECURSIVE lstrip(_)
lstrip(s) == IF s # <<>> /\ isspace(Head(s)) THEN lstrip(Tail(s)) ELSE s

RECURSIVE rstrip(_)
rstrip(s) ==
    IF s # <<>> /\ isspace(s[Len(s)]) THEN rstrip(SubSeq(s, 1, Len(s) - 1)) ELSE s

strip(s) == rstrip(lstrip(s))

\* s.find(c): 0-based index of the first c in s, -1 when absent
RECURSIVE findFrom(_, _, _)
findFrom(s, c, k) ==
    IF k > Len(s) THEN -1
    ELSE IF s[k] = c THEN k - 1
    ELSE findFrom(s, c, k + 1)

find(s, c) == findFrom(s, c, 1)

contains(s, c) == \E k \in 1..Len(s) : s[k] = c

\* s[k:] with a 0-based k
sliceFrom(s, k) == SubSeq(s, k + 1, Len(s))

startswith(s, p) == Len(s) >= Len(p) /\ SubSeq(s, 1, Len(p)) = p

\* s.split(sep) for a one-character separator
RECURSIVE splitAcc(_, _, _)
splitAcc(s, sep, cur) ==
    IF s = <<>> THEN <<cur>>
    ELSE IF Head(s) = sep THEN <<cur>> \o splitAcc(Tail(s), sep, <<>>)
    ELSE splitAcc(Tail(s), sep, Append(cur, Head(s)))

split(s, sep) == splitAcc(s, sep, <<>>)

RECURSIVE SelectNonEmpty(_)
SelectNonEmpty(ls) ==
    IF ls = <<>> THEN <<>>
    ELSE IF Head(ls) # <<>> THEN <<Head(ls)>> \o SelectNonEmpty(Tail(ls))
    ELSE SelectNonEmpty(Tail(ls))

\* Unicode code points of the characters file names are built from
CodePoint(c) == CASE c = "A" -> 65 [] c = "a" -> 97 [] c = "b" -> 98

lowerChar(c) == IF c = "A" THEN "a" ELSE c
lower(s) == [k \in 1..Len(s) |-> lowerChar(s[k])]

\* Python's str ordering: lexicographic by code point
RECURSIVE strLess(_, _)
strLess(s, t) ==
    IF t = <<>> THEN FALSE
    ELSE IF s = <<>> THEN TRUE
    ELSE IF Head(s) # Head(t) THEN CodePoint(Head(s)) < CodePoint(Head(t))
    ELSE strLess(Tail(s), Tail(t))

RECURSIVE insertSorted(_, _)
insertSorted(x, ls) ==
    IF ls = <<>> THEN <<x>>
    ELSE IF strLess(Head(ls), x) \/ Head(ls) = x THEN <<Head(ls)>> \o insertSorted(x, Tail(ls))
    ELSE <<x>> \o ls

RECURSIVE sorted(_)
sorted(ls) == IF ls = <<>> THEN <<>> ELSE insertSorted(Head(ls), sorted(Tail(ls)))

---------------------------------------------------------------------------
(* API key *)

Configs == [secrets : BOOLEAN, env : BOOLEAN]
BothSources == [secrets |-> TRUE, env |-> TRUE]

\* app.py:16: st.secrets.get("OPENAI_API_KEY") or os.getenv("OPENAI_API_KEY")
OPENAI_API_KEY == config.secrets \/ config.env

\* translator.py:11: os.getenv("OPENAI_API_KEY"); translator.py:15-25 leaves client
\* at None when the constructor finds no key
translator_OPENAI_API_KEY == config.env

---------------------------------------------------------------------------
(* Caption Generator: generate_openai_captions *)

\* The two error strings generate_openai_captions can build in its except clause
CaptioningError == <<ErrMark, "E">>
CleanupError == <<ErrMark, "I">>
\* app.py:123
KeyMissingCaption == <<ErrMark, "K">>

\* Outcome of client.chat.completions.create(...).choices[0].message.content:
\* ok = FALSE when the call or the access raises, else content is the text.
ApiFailure == [ok |-> FALSE, content |-> <<>>]
ApiText(s) == [ok |-> TRUE, content |-> s]

\* app.py:172
captions_list(raw_captions) ==
    LET lines == split(raw_captions, NL)
    IN  SelectNonEmpty([k \in 1..Len(lines) |-> strip(lines[k])])

\* app.py:176: cap[1] raises IndexError on a one-character line starting with a digit
cleanRaises(cap) == isdigit(cap[1]) /\ Len(cap) = 1

\* app.py:176-181
cleanCaption(cap) ==
    IF isdigit(cap[1]) /\ (cap[2] = "." \/ cap[2] = " ")
    THEN IF contains(cap, ".")
         THEN strip(sliceFrom(cap, find(cap, ".") + 1))
         ELSE strip(sliceFrom(cap, find(cap, " ") + 1))
    ELSE IF startswith(cap, <<"-", " ">>)
    THEN strip(sliceFrom(cap, 2))
    ELSE cap

\* app.py:144-191, given the outcome of the API call
generate_openai_captions(api, num_variations) ==
    IF ~OPENAI_API_KEY THEN <<KeyMissingCaption>>
    ELSE IF ~api.ok THEN <<CaptioningError>>
    ELSE LET raw_captions == strip(api.content)
         IN  IF num_variations > 1
             THEN LET caps == captions_list(raw_captions)
                  IN  IF \E k \in 1..Len(caps) : cleanRaises(caps[k])
                      THEN <<CleanupError>>
                      ELSE [k \in 1..Len(caps) |-> cleanCaption(caps[k])]
             ELSE <<raw_captions>>


---------------------------------------------------------------------------
(* Translator: utils/translator.py *)

TranslationError == <<ErrMark, "T">>
\* translator.py:47
TranslatorKeyMissing == <<ErrMark, "M">>

\* translator.py:45-89, given whether the API call succeeds
translate_with_openai(text, target_lang_code, api_ok) ==
    IF ~translator_OPENAI_API_KEY THEN TranslatorKeyMissing
    ELSE IF api_ok THEN <<"[", target_lang_code, "]">> \o text
    ELSE TranslationError

---------------------------------------------------------------------------
(* Retrieval cache: utils/vectordb.py *)

\* vectordb.py:8-15: collection.add(documents=[caption], ids=[caption]); the
\* documents of the collection after the call.  No line of Main/app.py calls it.
add_caption_to_db(documents, caption) == documents \cup {caption}

---------------------------------------------------------------------------
(* Inputs *)

LangCodes == {"hi", "te"}                 \* two of indian_languages (app.py:38-49)
CaptionStyles == {"Default", "Humorous"}  \* two of caption_styles (app.py:53-62)

\* An uploaded file: its name and its byte size (which stands for its content)
File(n, sz) == [name |-> n, size |-> sz]
Files == {File(<<"a">>, 1), File(<<"a">>, 2), File(<<"A">>, 1), File(<<"b">>, 1)}

RECURSIVE SeqsUpTo(_, _)
SeqsUpTo(S, n) ==
    IF n = 0 THEN {<<>>}
    ELSE LET shorter == SeqsUpTo(S, n - 1)
         IN  shorter \cup {Append(q, x) : q \in {r \in shorter : Len(r) = n - 1}, x \in S}

Selections == SeqsUpTo(Files, MaxFiles)

\* Raw model outputs the Generator is given in a session
RawOutputs == { <<>>,
                <<"1", ".", " ", "a", NL, "2", ".", " ", "b">> }
ApiOutcomes == {ApiFailure} \cup {ApiText(s) : s \in RawOutputs}

\* Raw model outputs of the isolated Generator calls
Alphabet == {"1", ".", " ", "-", "a", NL}
UnitOutcomes == {ApiFailure} \cup {ApiText(s) : s \in SeqsUpTo(Alphabet, MaxLen)}

---------------------------------------------------------------------------
(* Session state store and widgets *)

EmptyMap == [l \in {} |-> <<>>]
\* Variant of Put that starts a new map
Put_Reset(m, k, v) == [l \in {k} |-> v]

Put(m, k, v) == [l \in DOMAIN m \cup {k} |-> IF l = k THEN v ELSE m[l]]

\* app.py:238, 277
CaptionRecord(caption_text) == [caption |-> caption_text, translations |-> EmptyMap]

\* app.py:224-228; the decoded bitmap is identified by the file's content
ImageRecord(f) == [file_name |-> f.name, image_data |-> f.size, captions_data |-> <<>>]

NoCalls == [l \in LangCodes |-> 0]

\* app.py:90-95: a widget whose key changed is a new widget with nothing selected
file_uploader(widget, key) ==
    IF widget.key = key THEN widget ELSE [key |-> key, files |-> <<>>]

\* app.py:209, 211
current_file_names(uploaded_files) ==
    sorted([k \in 1..Len(uploaded_files) |-> uploaded_files[k].name])
stored_file_names(data) ==
    sorted([k \in 1..Len(data) |-> data[k].file_name])

\* Variants of the name comparison: order-sensitive, always unequal, lengths only
NamesDiffer_Unsorted(files, data) ==
    [k \in 1..Len(files) |-> files[k].name] # [k \in 1..Len(data) |-> data[k].file_name]
NamesDiffer_Always(files, data) == TRUE
NamesDiffer_LenOnly(files, data) == Len(files) # Len(data)

\* Variant of NamesDiffer that compares the sets of names
NamesDiffer_AsSets(files, data) ==
    {files[k].name : k \in 1..Len(files)} # {data[k].file_name : k \in 1..Len(data)}

\* app.py:216
NamesDiffer(files, data) ==
    current_file_names(files) # stored_file_names(data)

\* Variant of NeedsTranslation that asks again when the stored string is an
\* error string
NeedsTranslation_RetryErrors(enable, caption_entry, code) ==
    /\ enable
    /\ ~startswith(caption_entry.caption, <<ErrMark>>)
    /\ \/ code \notin DOMAIN caption_entry.translations
       \/ startswith(caption_entry.translations[code], <<ErrMark>>)

\* Variants of the translation guard
NeedsTranslation_NoCache(enable, caption_entry, code) ==
    enable /\ ~startswith(caption_entry.caption, <<ErrMark>>)
NeedsTranslation_NoErrCheck(enable, caption_entry, code) ==
    enable /\ code \notin DOMAIN caption_entry.translations

\* app.py:257-258: the Translator is called for this caption in this render
NeedsTranslation(enable, caption_entry, code) ==
    /\ enable
    /\ ~startswith(caption_entry.caption, <<ErrMark>>)
    /\ code \notin DOMAIN caption_entry.translations

NoButton == [kind |-> "none", idx |-> 0]
IdleUnit == [api |-> ApiFailure, n |-> 0, result |-> <<>>, done |-> TRUE]
IdleLocal == [pc |-> "off", n |-> 0, idx |-> 0, temp_path |-> 0, temp_files |-> {},
              enable_translation |-> FALSE, regenerate |-> 0, errors |-> 0,
              failed_translations |-> 0]
NoSessions == <<>>

uploaded_files == file_uploader(uploader, file_uploader_key_counter).files

---------------------------------------------------------------------------
(* Initial state: a new session, first script run due *)

\* a new session: empty st.session_state, widgets at their defaults
NewSession ==
    /\ uploaded_images_data = <<>>
    /\ file_uploader_key_counter = 0
    /\ uploader = [key |-> 0, files |-> <<>>]
    /\ enable_translation = FALSE
    /\ selected_language_code = "hi"
    /\ selected_caption_style = "Default"
    /\ num_captions_to_generate = 1
    /\ button = NoButton
    /\ img_idx = 0
    /\ run_cause = "load"
    /\ gen_log = <<>>
    /\ translate_calls = <<>>
    /\ events = 0

\* nothing else is going on: no isolated call, an empty retrieval cache
\* (vectordb.py:4-5), no local-model pass, no second session
Alone ==
    /\ unit = IdleUnit
    /\ collection = {}
    /\ local = IdleLocal
    /\ sessions = NoSessions

\* the key is set in both sources and the client was constructed (app.py:22-24)
Init ==
    /\ NewSession
    /\ Alone
    /\ pc = "run"
    /\ config = BothSources

sidebar == <<enable_translation, selected_language_code, selected_caption_style,
             num_captions_to_generate>>
store == <<uploaded_images_data, translate_calls>>

---------------------------------------------------------------------------
(* User interactions: each changes one widget and starts a script run *)

Interact(cause) ==
    /\ pc = "idle"
    /\ events < MaxEvents
    /\ events' = events + 1
    /\ pc' = "run"
    /\ run_cause' = cause
    /\ UNCHANGED <<store, file_uploader_key_counter, img_idx, gen_log, aux>>

UploadFiles ==
    \E sel \in Selections :
        /\ sel # uploader.files
        /\ Interact("upload")
        /\ uploader' = [uploader EXCEPT !.files = sel]
        /\ UNCHANGED <<sidebar, button>>

ToggleTranslation ==
    /\ Interact("sidebar")
    /\ enable_translation' = ~enable_translation
    /\ UNCHANGED <<selected_language_code, selected_caption_style,
                   num_captions_to_generate, uploader, button>>

SelectLanguage ==
    \E code \in LangCodes \ {selected_language_code} :
        /\ Interact("sidebar")
        /\ selected_language_code' = code
        /\ UNCHANGED <<enable_translation, selected_caption_style,
                       num_captions_to_generate, uploader, button>>

SelectStyle ==
    \E style \in CaptionStyles \ {selected_caption_style} :
        /\ Interact("sidebar")
        /\ selected_caption_style' = style
        /\ UNCHANGED <<enable_translation, selected_language_code,
                       num_captions_to_generate, uploader, button>>

SlideCount ==
    \E n \in (1..MaxN) \ {num_captions_to_generate} :
        /\ n <= SliderMax
        /\ Interact("sidebar")
        /\ num_captions_to_generate' = n
        /\ UNCHANGED <<enable_translation, selected_language_code,
                       selected_caption_style, uploader, button>>

ClickClearAll ==
    /\ Interact("clear_click")
    /\ button' = [kind |-> "clear", idx |-> 0]
    /\ UNCHANGED <<sidebar, uploader>>

\* the button of image i exists when the last run displayed image i
ClickGenerateAnother ==
    \E i \in 1..Len(uploaded_images_data) :
        /\ Len(uploaded_images_data[i].captions_data) < MaxCaptions
        /\ Interact("gen_click")
        /\ button' = [kind |-> "gen", idx |-> i]
        /\ UNCHANGED <<sidebar, uploader>>

---------------------------------------------------------------------------
(* A script run *)

\* st.rerun(): the run stops, a new one is due, no button reads as pressed
Rerun(cause) ==
    /\ pc' = "run"
    /\ run_cause' = cause
    /\ button' = NoButton
    /\ img_idx' = 0

\* Variant of ClearAllHandler that leaves the uploader key alone
ClearAllHandler_NoKeyReset ==
    /\ pc = "run"
    /\ button.kind = "clear"
    /\ uploaded_images_data' = <<>>
    /\ translate_calls' = <<>>
    /\ Rerun("rerun_clear")
    /\ gen_log' = <<>>
    /\ UNCHANGED <<file_uploader_key_counter, uploader, sidebar, events, aux>>

\* app.py:82-86
ClearAllHandler ==
    /\ pc = "run"
    /\ button.kind = "clear"
    /\ uploaded_images_data' = <<>>
    /\ translate_calls' = <<>>
    /\ file_uploader_key_counter' = file_uploader_key_counter + 1
    /\ Rerun("rerun_clear")
    /\ gen_log' = <<>>
    /\ UNCHANGED <<uploader, sidebar, events, aux>>

\* Variant of WithCaptions that puts the new captions in place of the old ones
WithCaptions_Replace(img_entry, api, n) ==
    LET captions == generate_openai_captions(api, n)
    IN  [img_entry EXCEPT !.captions_data =
            [k \in 1..Len(captions) |-> CaptionRecord(captions[k])]]

\* app.py:236-238 for one image: its record after the Generator call with outcome api
WithCaptions(img_entry, api, n) ==
    LET captions == generate_openai_captions(api, n)
    IN  [img_entry EXCEPT !.captions_data =
            @ \o [k \in 1..Len(captions) |-> CaptionRecord(captions[k])]]

\* Variant of InitialGeneration in which a failed call ends the loop
InitialGeneration_AbortOnFailure(data, apis, n) ==
    [k \in 1..Len(data) |->
        IF data[k].captions_data = <<>> /\ \A m \in 1..(k - 1) : apis[m].ok
        THEN WithCaptions(data[k], apis[k], n)
        ELSE data[k]]

\* app.py:232-238: the loop over the new records; apis[k] is the outcome of the
\* API call made for record k
InitialGeneration(data, apis, n) ==
    [k \in 1..Len(data) |->
        IF data[k].captions_data = <<>> THEN WithCaptions(data[k], apis[k], n)
        ELSE data[k]]

\* Variants of Registered: one record per distinct name; records of names that
\* were already stored are kept
RECURSIVE Registered_Dedup(_)
Registered_Dedup(files) ==
    IF files = <<>> THEN <<>>
    ELSE LET front == Registered_Dedup(SubSeq(files, 1, Len(files) - 1))
             f == files[Len(files)]
         IN  IF \E k \in 1..Len(front) : front[k].file_name = f.name
             THEN front ELSE Append(front, ImageRecord(f))
Registered_Incremental(files) ==
    [k \in 1..Len(files) |->
        IF \E m \in 1..Len(uploaded_images_data) :
                uploaded_images_data[m].file_name = files[k].name
        THEN uploaded_images_data[CHOOSE m \in 1..Len(uploaded_images_data) :
                                      uploaded_images_data[m].file_name = files[k].name]
        ELSE ImageRecord(files[k])]

\* app.py:218-228
\* Variant of Registered that stores lower-cased file names
Registered_Lower(files) ==
    [k \in 1..Len(files) |-> [ImageRecord(files[k]) EXCEPT !.file_name = lower(@)]]

Registered(files) == [k \in 1..Len(files) |-> ImageRecord(files[k])]

LogEntry(i, api, n) ==
    [img |-> i, api |-> api, n |-> n, result |-> generate_openai_captions(api, n)]

\* the calls InitialGeneration makes: one for each record without captions
GenerationLog(data, apis, n) ==
    SelectSeq([k \in 1..Len(data) |-> LogEntry(k, apis[k], n)],
              LAMBDA e : data[e.img].captions_data = <<>>)

\* Variant of ReplaceBatch without the st.rerun() of app.py:240: the run goes on
\* into the display loop
ReplaceBatch_NoRerun ==
    /\ pc = "run"
    /\ button.kind # "clear"
    /\ uploaded_files # <<>>
    /\ NamesDiffer(uploaded_files, uploaded_images_data)
    /\ \E apis \in [1..Len(uploaded_files) -> ApiOutcomes] :
        LET fresh == Registered(uploaded_files)
        IN  /\ uploaded_images_data' =
                    InitialGeneration(fresh, apis, num_captions_to_generate)
            /\ gen_log' = GenerationLog(fresh, apis, num_captions_to_generate)
            /\ translate_calls' =
                   [k \in 1..Len(fresh) |->
                       [j \in 1..Len(uploaded_images_data'[k].captions_data) |-> NoCalls]]
    /\ uploader' = file_uploader(uploader, file_uploader_key_counter)
    /\ pc' = "display"
    /\ img_idx' = 1
    /\ UNCHANGED <<file_uploader_key_counter, sidebar, button, run_cause, events, aux>>

\* app.py:207-240
ReplaceBatch ==
    /\ pc = "run"
    /\ button.kind # "clear"
    /\ uploaded_files # <<>>
    /\ NamesDiffer(uploaded_files, uploaded_images_data)
    /\ \E apis \in [1..Len(uploaded_files) -> ApiOutcomes] :
        LET fresh == Registered(uploaded_files)
        IN  /\ uploaded_images_data' =
                    InitialGeneration(fresh, apis, num_captions_to_generate)
            /\ gen_log' = GenerationLog(fresh, apis, num_captions_to_generate)
            /\ translate_calls' =
                   [k \in 1..Len(fresh) |->
                       [j \in 1..Len(uploaded_images_data'[k].captions_data) |-> NoCalls]]
    /\ uploader' = file_uploader(uploader, file_uploader_key_counter)
    /\ Rerun("rerun_load")
    /\ UNCHANGED <<file_uploader_key_counter, sidebar, events, aux>>

\* app.py:207-216, 243: same names, the display loop starts
EnterDisplay ==
    /\ pc = "run"
    /\ button.kind # "clear"
    /\ uploaded_files # <<>>
    /\ ~NamesDiffer(uploaded_files, uploaded_images_data)
    /\ uploader' = file_uploader(uploader, file_uploader_key_counter)
    /\ pc' = "display"
    /\ img_idx' = 1
    /\ gen_log' = <<>>
    /\ UNCHANGED <<store, file_uploader_key_counter, sidebar, button, run_cause,
                   events, aux>>

\* Variant of RenderCaptions that translates the first caption of an image only
RenderCaptions_FirstOnly(captions_data, enable, code, apis) ==
    [j \in 1..Len(captions_data) |->
        IF j = 1 /\ NeedsTranslation(enable, captions_data[j], code)
        THEN [captions_data[j] EXCEPT !.translations =
                 Put(@, code, translate_with_openai(captions_data[j].caption, code, apis[j]))]
        ELSE captions_data[j]]

\* Variant of RenderCaptions that translates whether or not translation is enabled
RenderCaptions_IgnoreToggle(captions_data, enable, code, apis) ==
    [j \in 1..Len(captions_data) |->
        IF NeedsTranslation(TRUE, captions_data[j], code)
        THEN [captions_data[j] EXCEPT !.translations =
                 Put(@, code, translate_with_openai(captions_data[j].caption, code, apis[j]))]
        ELSE captions_data[j]]

\* app.py:250-268 for one image: apis[j] is the outcome of the Translator's API
\* call for caption j, when one is made
RenderCaptions(captions_data, enable, code, apis) ==
    [j \in 1..Len(captions_data) |->
        IF NeedsTranslation(enable, captions_data[j], code)
        THEN [captions_data[j] EXCEPT !.translations =
                 Put(@, code, translate_with_openai(captions_data[j].caption, code, apis[j]))]
        ELSE captions_data[j]]

CountCalls(calls, captions_data, enable, code) ==
    [j \in 1..Len(captions_data) |->
        IF NeedsTranslation(enable, captions_data[j], code)
        THEN [calls[j] EXCEPT ![code] = @ + 1]
        ELSE calls[j]]

\* app.py:243-279: one iteration of the display loop
DisplayImage ==
    /\ pc = "display"
    /\ img_idx \in 1..Len(uploaded_images_data)
    /\ \E tapis \in [1..Len(uploaded_images_data[img_idx].captions_data) -> BOOLEAN],
          gapi \in IF button.kind = "gen" /\ button.idx = img_idx
                   THEN ApiOutcomes ELSE {ApiFailure} :
        LET img_entry == uploaded_images_data[img_idx]
            rendered == [img_entry EXCEPT !.captions_data =
                            RenderCaptions(@, enable_translation,
                                           selected_language_code, tapis)]
            counted == CountCalls(translate_calls[img_idx], img_entry.captions_data,
                                  enable_translation, selected_language_code)
            pressed == button.kind = "gen" /\ button.idx = img_idx
        IN  IF pressed
            THEN /\ uploaded_images_data' =
                        [uploaded_images_data EXCEPT ![img_idx] =
                            WithCaptions(rendered, gapi, num_captions_to_generate)]
                 /\ translate_calls' =
                        [translate_calls EXCEPT ![img_idx] =
                            counted \o
                            [j \in 1..(Len(uploaded_images_data'[img_idx].captions_data)
                                        - Len(counted)) |-> NoCalls]]
                 /\ gen_log' = <<LogEntry(img_idx, gapi, num_captions_to_generate)>>
                 /\ Rerun("rerun_gen")
            ELSE /\ uploaded_images_data' =
                        [uploaded_images_data EXCEPT ![img_idx] = rendered]
                 /\ translate_calls' = [translate_calls EXCEPT ![img_idx] = counted]
                 /\ IF img_idx < Len(uploaded_images_data)
                    THEN /\ img_idx' = img_idx + 1
                         /\ UNCHANGED <<pc, button>>
                    ELSE /\ img_idx' = 0
                         /\ pc' = "idle"
                         /\ button' = NoButton
                 /\ UNCHANGED <<run_cause, gen_log>>
    /\ UNCHANGED <<file_uploader_key_counter, uploader, sidebar, events, aux>>

\* app.py:281-289
EmptyUploadClear ==
    /\ pc = "run"
    /\ button.kind # "clear"
    /\ uploaded_files = <<>>
    /\ uploaded_images_data # <<>>
    /\ uploaded_images_data' = <<>>
    /\ translate_calls' = <<>>
    /\ uploader' = file_uploader(uploader, file_uploader_key_counter)
    /\ Rerun("rerun_empty")
    /\ gen_log' = <<>>
    /\ UNCHANGED <<file_uploader_key_counter, sidebar, events, aux>>

\* app.py:290-292
ShowInfo ==
    /\ pc = "run"
    /\ button.kind # "clear"
    /\ uploaded_files = <<>>
    /\ uploaded_images_data = <<>>
    /\ uploader' = file_uploader(uploader, file_uploader_key_counter)
    /\ pc' = "idle"
    /\ button' = NoButton
    /\ gen_log' = <<>>
    /\ UNCHANGED <<store, file_uploader_key_counter, sidebar, img_idx, run_cause,
                   events, aux>>

Next ==
    \/ UploadFiles
    \/ ToggleTranslation
    \/ SelectLanguage
    \/ SelectStyle
    \/ SlideCount
    \/ ClickClearAll
    \/ ClickGenerateAnother
    \/ ClearAllHandler
    \/ ReplaceBatch
    \/ EnterDisplay
    \/ DisplayImage
    \/ EmptyUploadClear
    \/ ShowInfo

Spec == Init /\ [][Next]_vars

---------------------------------------------------------------------------
(* One call of generate_openai_captions in isolation *)

InitUnit ==
    /\ uploaded_images_data = <<>>
    /\ file_uploader_key_counter = 0
    /\ uploader = [key |-> 0, files |-> <<>>]
    /\ enable_translation = FALSE
    /\ selected_language_code = "hi"
    /\ selected_caption_style = "Default"
    /\ num_captions_to_generate \in 1..MaxN
    /\ button = NoButton
    /\ pc = "unit"
    /\ img_idx = 0
    /\ run_cause = "unit"
    /\ gen_log = <<>>
    /\ translate_calls = <<>>
    /\ events = 0
    /\ config = BothSources
    /\ collection = {}
    /\ local = IdleLocal
    /\ sessions = NoSessions
    /\ \E api \in UnitOutcomes :
          unit = [api |-> api, n |-> num_captions_to_generate, result |-> <<>>,
                  done |-> FALSE]

CallGenerator ==
    /\ pc = "unit"
    /\ ~unit.done
    /\ unit' = [unit EXCEPT !.result = generate_openai_captions(unit.api, unit.n),
                            !.done = TRUE]
    /\ UNCHANGED <<store, file_uploader_key_counter, uploader, sidebar, button, pc,
                   img_idx, run_cause, gen_log, events, config, collection,
                   local, sessions>>

NextUnit == CallGenerator

SpecUnit == InitUnit /\ [][NextUnit]_vars

---------------------------------------------------------------------------
(* Start-up with the key set in the secret store, the environment, both or neither *)

InitKey ==
    /\ NewSession
    /\ Alone
    /\ pc = "startup"
    /\ config \in Configs

\* what a step of the start-up leaves alone
StartupFrame ==
    UNCHANGED <<store, file_uploader_key_counter, uploader, sidebar, button, img_idx,
                run_cause, gen_log, events, aux>>

\* app.py:22-24: OpenAI(api_key=...) finds a key, the script goes on
ClientInitialized ==
    /\ pc = "startup"
    /\ OPENAI_API_KEY
    /\ pc' = "run"
    /\ StartupFrame

\* app.py:25-30: the constructor raises, st.error and st.stop()
ClientInitFails ==
    /\ pc = "startup"
    /\ ~OPENAI_API_KEY
    /\ pc' = "stopped"
    /\ StartupFrame

NextKey ==
    \/ ClientInitialized
    \/ ClientInitFails
    \/ Next

SpecKey == InitKey /\ [][NextKey]_vars

---------------------------------------------------------------------------
(* Local-model variant: one render pass of llm-comfyui-captioning/app.py   *)
(* over n uploaded files.  A temp file is named by the index of the file   *)
(* it was written for (NamedTemporaryFile gives every file its own name).  *)
(* tmp.write (utils.py:5) is taken to succeed.                             *)

\* utils.py:3-6: the temp files on disk after the call that returns path
save_uploaded_image(temp_files, path) == temp_files \cup {path}

\* utils.py:8-10
delete_temp_image(temp_files, image_path) ==
    IF image_path \in temp_files THEN temp_files \ {image_path} ELSE temp_files

InitLocal ==
    /\ NewSession
    /\ unit = IdleUnit
    /\ collection = {}
    /\ sessions = NoSessions
    /\ config = BothSources
    /\ pc = "local"
    /\ \E n \in 0..MaxFiles, enable \in BOOLEAN, pressed \in 0..MaxFiles :
          /\ pressed <= n
          /\ local = [pc |-> IF n = 0 THEN "done" ELSE "save", n |-> n,
                      idx |-> IF n = 0 THEN 0 ELSE 1, temp_path |-> 0,
                      temp_files |-> {}, enable_translation |-> enable,
                      regenerate |-> pressed, errors |-> 0,
                      failed_translations |-> 0]

\* what a step of the pass leaves alone
LocalFrame ==
    UNCHANGED <<store, file_uploader_key_counter, uploader, sidebar, button, pc,
                img_idx, run_cause, gen_log, events, unit, config, collection,
                sessions>>

\* app.py:60
SaveTemp ==
    /\ local.pc = "save"
    /\ local' = [local EXCEPT !.temp_files = save_uploaded_image(@, local.idx),
                              !.temp_path = local.idx,
                              !.pc = "caption"]
    /\ LocalFrame

\* app.py:63-67: generate_caption returns or raises (captioning.py:27-33)
LocalCaption ==
    /\ local.pc = "caption"
    /\ \E ok \in BOOLEAN :
          local' = [local EXCEPT !.pc = IF ok THEN "regen" ELSE "except"]
    /\ LocalFrame

\* app.py:69-71: the second generate_caption call under the pressed button
LocalRegenerate ==
    /\ local.pc = "regen"
    /\ \E ok \in BOOLEAN :
          local' = [local EXCEPT !.pc = IF local.regenerate = local.idx /\ ~ok
                                        THEN "except"
                                        ELSE IF local.enable_translation
                                        THEN "translate" ELSE "card"]
    /\ LocalFrame

\* app.py:73-75: translate_caption returns the text or, catching its own
\* exception, a "Translation failed" string (translator.py:5-11); the
\* statements around the call may raise
LocalTranslate ==
    /\ local.pc = "translate"
    /\ \E outcome \in {"text", "failed", "raised"} :
          local' = [local EXCEPT !.failed_translations =
                                     IF outcome = "failed" THEN @ + 1 ELSE @,
                                 !.pc = IF outcome = "raised" THEN "except" ELSE "card"]
    /\ LocalFrame

\* app.py:76-81: drawing the card returns or raises
LocalCard ==
    /\ local.pc = "card"
    /\ \E ok \in BOOLEAN :
          local' = [local EXCEPT !.pc = IF ok THEN "finally" ELSE "except"]
    /\ LocalFrame

\* Variant of LocalExcept for a cleanup that is the last statement of the try
\* block: after an exception the loop goes on to the next file
LocalExcept_NoCleanup ==
    /\ local.pc = "except"
    /\ local' = [local EXCEPT !.errors = @ + 1,
                              !.idx = IF local.idx < local.n THEN @ + 1 ELSE @,
                              !.pc = IF local.idx < local.n THEN "save" ELSE "done"]
    /\ LocalFrame

\* app.py:83-84
LocalExcept ==
    /\ local.pc = "except"
    /\ local' = [local EXCEPT !.errors = @ + 1, !.pc = "finally"]
    /\ LocalFrame

\* app.py:86-87, then the next iteration of the loop at app.py:59
LocalFinally ==
    /\ local.pc = "finally"
    /\ local' = [local EXCEPT !.temp_files = delete_temp_image(@, local.temp_path),
                              !.idx = IF local.idx < local.n THEN @ + 1 ELSE @,
                              !.pc = IF local.idx < local.n THEN "save" ELSE "done"]
    /\ LocalFrame

NextLocal ==
    \/ SaveTemp
    \/ LocalCaption
    \/ LocalRegenerate
    \/ LocalTranslate
    \/ LocalCard
    \/ LocalExcept
    \/ LocalFinally

SpecLocal == InitLocal /\ [][NextLocal]_vars

---------------------------------------------------------------------------
(* Two sessions of Main/app.py in one server process.  Every script run    *)
(* of a session is one step; the runs of the two sessions interleave in    *)
(* any order.  The sidebar slider stays at its default of 1.               *)

MaxSessionOps == 3    \* script runs of the two sessions together

SessionIds == {1, 2}

\* Variant of SessionStateOf for a store kept in a module-level variable of the
\* server process: every session reaches the same object
SessionStateOf_ProcessWide(s) == CHOOSE t \in SessionIds : \A u \in SessionIds : t <= u

\* app.py:66-67, 203-204: st.session_state is the state object of the session
\* whose run executes the line
SessionStateOf(s) == s

NewSessionState ==
    [uploaded_images_data |-> <<>>, file_uploader_key_counter |-> 0, files |-> <<>>]

SessionSelections == SeqsUpTo({File(<<"a">>, 1), File(<<"b">>, 1)}, 1)

InitSessions ==
    /\ NewSession
    /\ unit = IdleUnit
    /\ collection = {}
    /\ local = IdleLocal
    /\ config = BothSources
    /\ pc = "sessions"
    /\ sessions = [state |-> [s \in SessionIds |-> NewSessionState],
                   last |-> 0, ops |-> 0]

\* a script run of session s that leaves new_state in the session's state object
SessionRun(s, new_state) ==
    /\ sessions.ops < MaxSessionOps
    /\ sessions' = [state |-> [sessions.state EXCEPT ![SessionStateOf(s)] = new_state],
                    last |-> s, ops |-> sessions.ops + 1]
    /\ UNCHANGED <<store, file_uploader_key_counter, uploader, sidebar, button, pc,
                   img_idx, run_cause, gen_log, events, unit, config, collection,
                   local>>

\* app.py:207-240, 281-289: session s changes its uploader selection
SessionUpload(s) ==
    \E sel \in SessionSelections, api \in ApiOutcomes :
        LET st == sessions.state[SessionStateOf(s)]
        IN  /\ sel # st.files
            /\ SessionRun(s,
                  [st EXCEPT
                     !.files = sel,
                     !.uploaded_images_data =
                        IF sel = <<>> THEN <<>>
                        ELSE IF NamesDiffer(sel, @)
                        THEN InitialGeneration(Registered(sel),
                                               [k \in 1..Len(sel) |-> api], 1)
                        ELSE @])

\* app.py:82-86: session s clicks Clear All
SessionClear(s) ==
    LET st == sessions.state[SessionStateOf(s)]
    IN  SessionRun(s, [st EXCEPT !.uploaded_images_data = <<>>,
                                 !.file_uploader_key_counter = @ + 1,
                                 !.files = <<>>])

\* app.py:273-279: session s clicks Generate Another Caption under image i
SessionGenerate(s) ==
    LET st == sessions.state[SessionStateOf(s)]
    IN  \E i \in 1..Len(st.uploaded_images_data), api \in ApiOutcomes :
            /\ Len(st.uploaded_images_data[i].captions_data) < MaxCaptions
            /\ SessionRun(s, [st EXCEPT !.uploaded_images_data[i] =
                                            WithCaptions(@, api, 1)])

\* app.py:243-268: session s renders its batch with translation enabled
SessionTranslate(s) ==
    LET st == sessions.state[SessionStateOf(s)]
    IN  \E code \in LangCodes, api_ok \in BOOLEAN :
            /\ st.uploaded_images_data # <<>>
            /\ SessionRun(s, [st EXCEPT !.uploaded_images_data =
                    [i \in 1..Len(@) |->
                        [@[i] EXCEPT !.captions_data =
                            RenderCaptions(@, TRUE, code,
                                           [j \in 1..Len(@) |-> api_ok])]]])

NextSessions ==
    \E s \in SessionIds :
        \/ SessionUpload(s)
        \/ SessionClear(s)
        \/ SessionGenerate(s)
        \/ SessionTranslate(s)

SpecSessions == InitSessions /\ [][NextSessions]_vars

---------------------------------------------------------------------------
(* Properties *)

Images == 1..Len(uploaded_images_data)
Captions(i) == 1..Len(uploaded_images_data[i].captions_data)
Caption(i, j) == uploaded_images_data[i].captions_data[j]
IsError(text) == startswith(text, <<ErrMark>>)
CaptionTexts(img_entry) ==
    [j \in 1..Len(img_entry.captions_data) |-> img_entry.captions_data[j].caption]
AllTranslationsEmpty(img_entry) ==
    \A j \in 1..Len(img_entry.captions_data) :
        DOMAIN img_entry.captions_data[j].translations = {}

\* a run that ended by forcing a rerun right after a batch replacement
JustLoaded == pc = "run" /\ run_cause = "rerun_load"

\* the call logged as e raised inside generate_openai_captions
Raised(e) ==
    \/ ~e.api.ok
    \/ /\ e.n > 1
       /\ \E c \in {captions_list(strip(e.api.content))} :
             \E k \in 1..Len(c) : cleanRaises(c[k])

\* number of non-empty lines of a raw model output
LineCount(raw) == Len(SelectNonEmpty(split(strip(raw), NL)))

\* C1: a run started by an upload whose sorted file names equal the stored
\* ones changes neither the stored records, captions and translations nor
\* calls the Generator or the Translator, in any of its steps.
C1_DiffIdempotent ==
    [][ ( /\ run_cause = "upload"
          /\ pc \in {"run", "display"}
          /\ uploaded_files # <<>>
          /\ current_file_names(uploaded_files)
                = stored_file_names(uploaded_images_data) )
        => ( /\ uploaded_images_data' = uploaded_images_data
             /\ translate_calls' = translate_calls
             /\ gen_log' = <<>> ) ]_vars

\* C1 witness: such a run has finished with a selection that differs from the
\* stored batch in order or in content.
C1_Witness ==
    /\ pc = "idle"
    /\ run_cause = "upload"
    /\ uploaded_images_data # <<>>
    /\ Len(uploader.files) = Len(uploaded_images_data)
    /\ \E k \in Images :
          \/ uploader.files[k].name # uploaded_images_data[k].file_name
          \/ uploader.files[k].size # uploaded_images_data[k].image_data
    /\ \E i \in Images : Captions(i) # {}

\* C2: no step of a run that was not started by an upload change and in which
\* no button reads as pressed calls the Generator (for any image, hence for
\* none that already has a caption), whatever the sidebar holds.
C2_NoDuplicateGeneration ==
    [][ ( /\ run_cause # "upload"
          /\ button.kind = "none"
          /\ pc \in {"run", "display"} )
        => gen_log' = <<>> ]_vars

\* C2 witness: a run started by a sidebar change has redrawn a batch whose
\* images have captions.
C2_Witness ==
    /\ pc = "idle"
    /\ run_cause = "sidebar"
    /\ num_captions_to_generate = 2
    /\ selected_caption_style = "Humorous"
    /\ uploaded_images_data # <<>>
    /\ \A i \in Images : Captions(i) # {}

C3_AtMostOnce ==
    \A i \in Images : \A j \in Captions(i) : \A l \in LangCodes :
        translate_calls[i][j][l] <= 1

C3_CachedServed ==
    ~(pc = "run" /\ pc' = "run")
    => \A i \in Images : \A j \in Captions(i) :
          \A l \in DOMAIN Caption(i, j).translations :
              /\ l \in DOMAIN uploaded_images_data'[i].captions_data[j].translations
              /\ uploaded_images_data'[i].captions_data[j].translations[l]
                    = Caption(i, j).translations[l]
              /\ translate_calls'[i][j][l] = translate_calls[i][j][l]

\* C3: for every caption record and language the Translator is called at most
\* once while the record lives, and once a translation is stored every later
\* step that keeps the record keeps the stored string and makes no new call.
C3_TranslationMemo == [](C3_AtMostOnce) /\ [][C3_CachedServed]_vars

\* C3 witness: the display loop is about to draw, with translation enabled, an
\* image whose caption already holds a translation for the selected language.
C3_Witness ==
    /\ pc = "display"
    /\ enable_translation
    /\ img_idx \in Images
    /\ \E j \in Captions(img_idx) :
          /\ selected_language_code \in DOMAIN Caption(img_idx, j).translations
          /\ translate_calls[img_idx][j][selected_language_code] = 1

\* C4 (as claimed): generate_openai_captions returns at least 1 and at most n
\* captions for every n and every raw model output.
C4_LengthBetween1AndN ==
    unit.done => (Len(unit.result) >= 1 /\ Len(unit.result) <= unit.n)

\* C5: a run that sees 'Clear All' pressed, or zero selected files, leaves the
\* image list empty and either ends or forces a rerun that will see zero
\* selected files; the run due after a clearing sees an empty list and an
\* empty selection.
C5_ClearLeadsToEmpty ==
    /\ []( (pc = "run" /\ run_cause \in {"rerun_clear", "rerun_empty"})
           => (uploaded_images_data = <<>> /\ uploaded_files = <<>>) )
    /\ [][ (pc = "run" /\ (button.kind = "clear" \/ uploaded_files = <<>>))
           => ( /\ uploaded_images_data' = <<>>
                /\ \/ pc' = "idle"
                   \/ pc' = "run" /\ uploaded_files' = <<>> ) ]_vars

\* C5 witness: 'Clear All' has just emptied the store while the old uploader
\* widget still held files.
C5_Witness ==
    /\ pc = "run"
    /\ run_cause = "rerun_clear"
    /\ uploader.files # <<>>
    /\ uploaded_images_data = <<>>

\* C6 (as claimed): after the initial load every uploaded file has one record
\* with exactly n captions, all without translations.
C6_ExactlyNCaptions ==
    JustLoaded =>
        /\ Len(uploaded_images_data) = Len(uploader.files)
        /\ \A i \in Images :
              /\ Len(uploaded_images_data[i].captions_data) = num_captions_to_generate
              /\ AllTranslationsEmpty(uploaded_images_data[i])

\* C6 (amended): after the initial load every uploaded file has one record, in
\* uploader order, all captions without translations; a record has exactly n
\* captions when its Generator call raised nothing and n = 1 or the raw output
\* had exactly n non-empty lines, and exactly one caption, an error string,
\* when the call raised.
C6_NCaptionsWhenModelEmitsN ==
    JustLoaded =>
        /\ Len(uploaded_images_data) = Len(uploader.files)
        /\ Len(gen_log) = Len(uploaded_images_data)
        /\ \A i \in Images :
              LET img_entry == uploaded_images_data[i]
                  e == gen_log[i]
              IN  /\ img_entry.file_name = uploader.files[i].name
                  /\ AllTranslationsEmpty(img_entry)
                  /\ e.img = i /\ e.n = num_captions_to_generate
                  /\ Raised(e) =>
                        /\ Len(img_entry.captions_data) = 1
                        /\ IsError(img_entry.captions_data[1].caption)
                  /\ (~Raised(e) /\ (e.n = 1 \/ LineCount(e.api.content) = e.n)) =>
                        Len(img_entry.captions_data) = e.n

\* C6 witness: two files loaded with n = 2, each record holding two captions.
C6_Witness ==
    /\ JustLoaded
    /\ num_captions_to_generate = 2
    /\ Len(uploaded_images_data) = 2
    /\ \A i \in Images : Len(uploaded_images_data[i].captions_data) = 2

\* C7: after a batch load every image has had its own Generator call; an image
\* whose call raised holds exactly one caption, an error string; every other
\* image holds the captions its own call returned, none of them an error string.
C7_FailureIsolation ==
    JustLoaded =>
        /\ Len(gen_log) = Len(uploaded_images_data)
        /\ \A i \in Images :
              LET img_entry == uploaded_images_data[i]
                  e == gen_log[i]
              IN  /\ e.img = i
                  /\ CaptionTexts(img_entry) = e.result
                  /\ Raised(e) =>
                        /\ Len(img_entry.captions_data) = 1
                        /\ IsError(img_entry.captions_data[1].caption)
                  /\ ~Raised(e) =>
                        \A j \in 1..Len(img_entry.captions_data) :
                            ~IsError(img_entry.captions_data[j].caption)

\* C7 witness: a two-image load in which the first call failed and the second
\* image got captions that are not error strings.
C7_Witness ==
    /\ JustLoaded
    /\ Len(uploaded_images_data) = 2
    /\ ~gen_log[1].api.ok
    /\ gen_log[2].api.ok
    /\ Len(uploaded_images_data[2].captions_data) = 2

\* C8: in every state, a caption whose text begins with the error marker has
\* no translation and has caused no Translator call.
C8_ErrorsNeverTranslated ==
    \A i \in Images : \A j \in Captions(i) :
        IsError(Caption(i, j).caption) =>
            /\ DOMAIN Caption(i, j).translations = {}
            /\ \A l \in LangCodes : translate_calls[i][j][l] = 0

\* C8 witness: a render with translation enabled has finished over a batch that
\* holds an error caption and a translated caption.
C8_Witness ==
    /\ pc = "idle"
    /\ enable_translation
    /\ \E i \in Images : \E j \in Captions(i) : IsError(Caption(i, j).caption)
    /\ \E i \in Images : \E j \in Captions(i) :
          selected_language_code \in DOMAIN Caption(i, j).translations

LowerNames(names) == sorted([k \in 1..Len(names) |-> lower(names[k])])

\* C9: whenever the display loop runs, the stored records are exactly those of
\* one batch whose file names, lower-cased and sorted, equal the lower-cased
\* sorted names selected in the uploader.
C9_BatchIdentity ==
    pc = "display" =>
        LowerNames([k \in 1..Len(uploaded_images_data) |->
                        uploaded_images_data[k].file_name])
          = LowerNames([k \in 1..Len(uploader.files) |-> uploader.files[k].name])

\* C9 witness: the display loop runs over a two-image batch with two different
\* names that the uploader lists in the other order.
C9_Witness ==
    /\ pc = "display"
    /\ Len(uploaded_images_data) = 2
    /\ uploaded_images_data[1].file_name = <<"b">>
    /\ uploader.files[1].name = <<"a">>

\* C10: a run that sees a non-empty selection whose sorted names differ from
\* the stored ones ends with one fresh record per selected file, in uploader
\* order, holding that file's bitmap, no cached translation and no earlier
\* Translator call, and with the captions of one Generator call made for it.
C10_FullReplacement ==
    [][ ( /\ pc = "run"
          /\ button.kind # "clear"
          /\ uploaded_files # <<>>
          /\ current_file_names(uploaded_files)
                # stored_file_names(uploaded_images_data) )
        => ( /\ Len(uploaded_images_data') = Len(uploaded_files)
             /\ Len(gen_log') = Len(uploaded_files)
             /\ \A k \in 1..Len(uploaded_files) :
                   /\ uploaded_images_data'[k].file_name = uploaded_files[k].name
                   /\ uploaded_images_data'[k].image_data = uploaded_files[k].size
                   /\ AllTranslationsEmpty(uploaded_images_data'[k])
                   /\ gen_log'[k].img = k
                   /\ CaptionTexts(uploaded_images_data'[k]) = gen_log'[k].result
                   /\ \A j \in 1..Len(translate_calls'[k]) :
                         translate_calls'[k][j] = NoCalls ) ]_vars

\* C10 witness: a batch that had been rendered with translation enabled has
\* been replaced by a two-file selection.
C10_Witness ==
    /\ JustLoaded
    /\ events = 3
    /\ enable_translation
    /\ num_captions_to_generate = 1
    /\ selected_caption_style = "Default"
    /\ selected_language_code = "hi"
    /\ Len(uploaded_images_data) = 2

\* C11: when a render has run to completion with translation enabled and
\* language L selected, every non-error caption of every stored image has a
\* translation for L; and however many renders there have been, the Translator
\* has been called for a caption and a language exactly once if the caption
\* holds a translation for that language and never otherwise (so never for an
\* error caption).
C11_LazyFill ==
    /\ (pc = "idle" /\ enable_translation)
          => \A i \in Images : \A j \in Captions(i) :
                ~IsError(Caption(i, j).caption)
                   => selected_language_code \in DOMAIN Caption(i, j).translations
    /\ \A i \in Images : \A j \in Captions(i) : \A l \in LangCodes :
          translate_calls[i][j][l] =
             IF ~IsError(Caption(i, j).caption) /\ l \in DOMAIN Caption(i, j).translations
             THEN 1 ELSE 0

\* C11 witness: a later render starts, after a sidebar change, on a batch of
\* which every image has a caption and every caption is non-error and already
\* translated into the selected language.
C11_Witness ==
    /\ pc = "display"
    /\ run_cause = "sidebar"
    /\ img_idx = 1
    /\ enable_translation
    /\ Images # {}
    /\ \A i \in Images : Captions(i) # {}
    /\ \A i \in Images : \A j \in Captions(i) :
          /\ ~IsError(Caption(i, j).caption)
          /\ selected_language_code \in DOMAIN Caption(i, j).translations
          /\ translate_calls[i][j][selected_language_code] = 1

\* C12: a step that keeps a caption record (any step but a replacement or a
\* clearing of the batch) keeps the record's text, keeps every key of its
\* translations map with the value stored under it, and adds at most a key for
\* the selected language, which was not present before.
C12_TranslationsMonotonic ==
    [][ ~(pc = "run" /\ pc' = "run")
        => \A i \in Images : \A j \in Captions(i) :
              LET before == Caption(i, j).translations
                  after == uploaded_images_data'[i].captions_data[j].translations
              IN  /\ uploaded_images_data'[i].captions_data[j].caption
                        = Caption(i, j).caption
                  /\ DOMAIN before \subseteq DOMAIN after
                  /\ \A l \in DOMAIN before : after[l] = before[l]
                  /\ (DOMAIN after) \ (DOMAIN before) \subseteq {selected_language_code}
      ]_vars

\* C12 witness: a caption record holds translations for both languages, so a
\* key was added to a map that already had one.
C12_Witness ==
    \E i \in Images : \E j \in Captions(i) :
        DOMAIN Caption(i, j).translations = LangCodes

\* C13 (as claimed): the batch is identified by name and size, so whenever the
\* display loop runs every stored record describes a currently selected file:
\* some selected file has the record's name and the content the record was
\* decoded from.
C13_NamePlusSize ==
    pc = "display"
       => \A i \in Images :
             \E k \in 1..Len(uploader.files) :
                /\ uploader.files[k].name = uploaded_images_data[i].file_name
                /\ uploader.files[k].size = uploaded_images_data[i].image_data

\* C14 (as claimed): once the run that follows a Generator run has completed,
\* every non-error caption in the store is a document of the retrieval cache,
\* and no error string is.
C14_CaptionsReachCache ==
    /\ pc = "idle"
          => \A i \in Images : \A j \in Captions(i) :
                ~IsError(Caption(i, j).caption) => Caption(i, j).caption \in collection
    /\ \A d \in collection : ~IsError(d)

\* C15: in a render pass of the local-model variant the temp file written for
\* a file is gone when the pass turns to the next file and when the pass has
\* finished, whether captioning, translation and drawing succeeded or failed;
\* at no time does a temp file other than the current file's exist.
C15_TempFilesDeleted ==
    /\ local.pc \in {"save", "done"} => local.temp_files = {}
    /\ local.temp_files \subseteq {local.temp_path}

\* C15 witness: a pass over two files has finished in which an exception was
\* raised and caught for one file and a translation failed for the other.
C15_Witness ==
    /\ local.pc = "done"
    /\ local.n = 2
    /\ local.errors = 1
    /\ local.failed_translations = 1

\* C16: with the runs of two sessions interleaved in any order, a step changes
\* the stored batch, captions, translations, uploader selection or uploader key
\* counter of a session only if it is a run of that session.
C16_SessionIsolation ==
    [][ \A s \in SessionIds :
           sessions'.state[s] # sessions.state[s] => sessions'.last = s ]_vars

\* C16 witness: session 2 has just run while session 1 holds a translated
\* caption, and the two sessions hold different batches and different uploader
\* key counters.
C16_Witness ==
    /\ pc = "sessions"
    /\ sessions.last = 2
    /\ sessions.state[1].uploaded_images_data # <<>>
    /\ \E j \in 1..Len(sessions.state[1].uploaded_images_data[1].captions_data) :
          DOMAIN sessions.state[1].uploaded_images_data[1].captions_data[j].translations
             # {}
    /\ sessions.state[2].file_uploader_key_counter = 1
    /\ sessions.state[1].file_uploader_key_counter = 0

\* C17 (as claimed): when the key is in neither the secret store nor the
\* environment the script stops at start-up, before any render and any
\* Generator or Translator call; when it is in either of them no caption is
\* the Generator's key-missing string and no translation is the Translator's
\* key-missing string.
C17_KeyFatalNotPerCall ==
    /\ ~(config.secrets \/ config.env)
          => /\ pc \in {"startup", "stopped"}
             /\ uploaded_images_data = <<>>
             /\ gen_log = <<>>
    /\ (config.secrets \/ config.env)
          => \A i \in Images : \A j \in Captions(i) :
                /\ Caption(i, j).caption # KeyMissingCaption
                /\ \A l \in DOMAIN Caption(i, j).translations :
                      Caption(i, j).translations[l] # TranslatorKeyMissing

\* C18 (as claimed): the run that replaces the batch calls the Generator once
\* for each image of the new batch, in order, and leaves every stored image
\* with at least one caption; so whenever the display loop runs, every stored
\* image has at least one caption.
C18_LoadedHasCaptions ==
    /\ JustLoaded
          => /\ Len(gen_log) = Len(uploaded_images_data)
             /\ \A k \in 1..Len(gen_log) : gen_log[k].img = k
    /\ (JustLoaded \/ pc = "display")
          => \A i \in Images : uploaded_images_data[i].captions_data # <<>>

\* the batch as a render shows it: the files and the caption texts of each
BatchShape ==
    [i \in Images |->
        [file_name |-> uploaded_images_data[i].file_name,
         image_data |-> uploaded_images_data[i].image_data,
         texts |-> CaptionTexts(uploaded_images_data[i])]]

C19_MutationForcesRerun ==
    BatchShape' # BatchShape
       => /\ pc' = "run"
          /\ run_cause' \in {"rerun_load", "rerun_gen", "rerun_clear", "rerun_empty"}

C19_DisplayAfterCommit ==
    /\ pc = "display" => gen_log = <<>>
    /\ JustLoaded => Len(gen_log) = Len(uploaded_images_data)

\* C19: a step that changes the batch (replacement with initial generation,
\* Generate Another Caption, clearing) ends its run with a forced rerun, so
\* nothing is displayed after it in that run; a run that is in the display
\* loop has made no Generator call and no replacement before the loop; and
\* when the rerun after a replacement is due, the Generator has been run for
\* every image of the new batch.
C19_NoTornReads == [](C19_DisplayAfterCommit) /\ [][C19_MutationForcesRerun]_vars

\* C19 witness: the display loop is drawing the second image of a two-image
\* batch in the run forced by Generate Another Caption.
C19_Witness ==
    /\ pc = "display"
    /\ run_cause = "rerun_gen"
    /\ Len(uploaded_images_data) = 2
    /\ img_idx = 2

\* the display loop is at the image whose Generate Another Caption button was
\* clicked
GenerateAnotherPressed ==
    /\ pc = "display"
    /\ button.kind = "gen"
    /\ button.idx = img_idx

\* C20: the step that handles Generate Another Caption for image X makes one
\* Generator call and appends its results, in the order returned and each with
\* an empty translations map, to the end of X's captions; X's earlier captions
\* keep their text, their position and every translation they held; the
\* records of every other image are unchanged.
C20_GenerateAnotherAppends ==
    [][ GenerateAnotherPressed
        => LET X == img_idx
               old == uploaded_images_data[X].captions_data
               new == uploaded_images_data'[X].captions_data
           IN  /\ Len(gen_log') = 1
               /\ gen_log'[1].img = X
               /\ Len(uploaded_images_data') = Len(uploaded_images_data)
               /\ Len(new) = Len(old) + Len(gen_log'[1].result)
               /\ \A k \in 1..Len(gen_log'[1].result) :
                     new[Len(old) + k] = CaptionRecord(gen_log'[1].result[k])
               /\ \A j \in 1..Len(old) :
                     /\ new[j].caption = old[j].caption
                     /\ \A l \in DOMAIN old[j].translations :
                           /\ l \in DOMAIN new[j].translations
                           /\ new[j].translations[l] = old[j].translations[l]
               /\ uploaded_images_data'[X].file_name = uploaded_images_data[X].file_name
               /\ uploaded_images_data'[X].image_data = uploaded_images_data[X].image_data
               /\ \A i \in Images \ {X} :
                     uploaded_images_data'[i] = uploaded_images_data[i]
      ]_vars

\* C20 witness: Generate Another Caption has just been handled for the second
\* image of a batch; its first caption holds a translation and the appended one
\* holds none.
C20_Witness ==
    /\ pc = "run"
    /\ run_cause = "rerun_gen"
    /\ Len(uploaded_images_data) = 2
    /\ gen_log # <<>>
    /\ gen_log[1].img = 2
    /\ Len(uploaded_images_data[2].captions_data) = 2
    /\ DOMAIN Caption(2, 1).translations # {}
    /\ DOMAIN Caption(2, 2).translations = {}

\* the cleanup of one line as C21 words it: "<digit>. " or "- " at the start
\* is removed, any other line is returned as it is
ClaimedCleanup(cap) ==
    IF Len(cap) >= 3 /\ isdigit(cap[1]) /\ cap[2] = "." /\ cap[3] = " "
    THEN sliceFrom(cap, 3)
    ELSE IF startswith(cap, <<"-", " ">>)
    THEN sliceFrom(cap, 2)
    ELSE cap

\* C21 (as claimed): for n > 1 and every raw output the call returns, for each
\* non-empty line of the output in order, the line with its enumerator prefix
\* removed (compared up to surrounding whitespace), and raises for no line.
C21_CleanupKeepsEveryLine ==
    (unit.done /\ unit.n > 1 /\ unit.api.ok)
       => LET caps == captions_list(strip(unit.api.content))
          IN  /\ Len(unit.result) = Len(caps)
              /\ \A k \in 1..Len(caps) :
                    strip(unit.result[k]) = strip(ClaimedCleanup(caps[k]))

\* every Translator call made for a caption left its result in the caption's
\* map, and a stored error string cost exactly one call
C22_FailureStoredOnce ==
    \A i \in Images : \A j \in Captions(i) : \A l \in LangCodes :
        /\ translate_calls[i][j][l] >= 1 => l \in DOMAIN Caption(i, j).translations
        /\ (l \in DOMAIN Caption(i, j).translations /\ IsError(Caption(i, j).translations[l]))
              => translate_calls[i][j][l] = 1

\* a step that keeps the caption record keeps a stored error string and makes
\* no Translator call for its language
C22_FailureKept ==
    ~(pc = "run" /\ pc' = "run")
    => \A i \in Images : \A j \in Captions(i) :
          \A l \in DOMAIN Caption(i, j).translations :
              IsError(Caption(i, j).translations[l])
                 => /\ l \in DOMAIN uploaded_images_data'[i].captions_data[j].translations
                    /\ IsError(uploaded_images_data'[i].captions_data[j].translations[l])
                    /\ translate_calls'[i][j][l] = 1

\* C22: when the Translator returns an error string for a caption and a
\* language, the string is stored under the language code, stays there in
\* every later render, and the Translator is not called again for the pair
\* while the caption record lives.
C22_FailedTranslationNotRetried ==
    [](C22_FailureStoredOnce) /\ [][C22_FailureKept]_vars

\* C22 witness: a later render starts, after a sidebar change, with translation
\* enabled on a caption whose stored translation for the selected language is
\* the Translator's error string.
C22_Witness ==
    /\ pc = "display"
    /\ run_cause = "sidebar"
    /\ enable_translation
    /\ img_idx \in Images
    /\ \E j \in Captions(img_idx) :
          /\ selected_language_code \in DOMAIN Caption(img_idx, j).translations
          /\ Caption(img_idx, j).translations[selected_language_code] = TranslationError

ForcedReruns == {"rerun_load", "rerun_gen", "rerun_clear", "rerun_empty"}

\* a run that a forced rerun started forces no rerun itself: its every step
\* leads into the display loop or to the end of the run
C23_NoSecondRerun ==
    (pc \in {"run", "display"} /\ run_cause \in ForcedReruns)
       => /\ pc' \in {"display", "idle"}
          /\ run_cause' = run_cause

\* every step of the display loop either ends the run or moves to the next
\* image of the batch
C23_DisplayAdvances ==
    (pc = "display" /\ pc' = "display")
       => /\ img_idx' = img_idx + 1
          /\ img_idx' <= Len(uploaded_images_data')
          /\ Len(uploaded_images_data') = Len(uploaded_images_data)

\* a run in progress always has a next step, and the display loop is inside
\* the batch
C23_RunNotStuck ==
    /\ pc = "display" => img_idx \in Images
    /\ pc \in {"run", "display"}
          => ENABLED (\/ ClearAllHandler
                      \/ ReplaceBatch
                      \/ EnterDisplay
                      \/ DisplayImage
                      \/ EmptyUploadClear
                      \/ ShowInfo)

\* C23: after one user interaction the script forces at most one rerun: the
\* run started by a forced rerun goes through the display loop, one image per
\* step, or shows the info message, and ends without forcing another.
C23_RerunChainsTerminate ==
    [](C23_RunNotStuck) /\ [][C23_NoSecondRerun /\ C23_DisplayAdvances]_vars

\* C23 witness: the run forced by a batch replacement has drawn the first of
\* two images and no button reads as pressed.
C23_Witness ==
    /\ pc = "display"
    /\ run_cause = "rerun_load"
    /\ img_idx = 2
    /\ Len(uploaded_images_data) = 2
    /\ button = NoButton
    /\ events = 3

\* a run that no upload change and no button click started: a sidebar change
\* or a forced rerun
QuietRun ==
    /\ pc \in {"run", "display"}
    /\ run_cause \in {"sidebar"} \cup ForcedReruns
    /\ button = NoButton

\* C24: every step of a run with an unchanged uploader selection and no button
\* press keeps the list of images, their order, files and caption texts, the
\* uploader key counter and every stored translation; it adds translations
\* only under the selected language code, only to non-error captions and only
\* when translation is enabled.
C24_QuietRunFrame ==
    [][ QuietRun
        => /\ file_uploader_key_counter' = file_uploader_key_counter
           /\ Len(uploaded_images_data') = Len(uploaded_images_data)
           /\ \A i \in Images :
                 /\ uploaded_images_data'[i].file_name = uploaded_images_data[i].file_name
                 /\ uploaded_images_data'[i].image_data = uploaded_images_data[i].image_data
                 /\ CaptionTexts(uploaded_images_data'[i])
                       = CaptionTexts(uploaded_images_data[i])
                 /\ \A j \in Captions(i) :
                       LET before == Caption(i, j).translations
                           after == uploaded_images_data'[i].captions_data[j].translations
                       IN  /\ \A l \in DOMAIN before :
                                 l \in DOMAIN after /\ after[l] = before[l]
                           /\ (DOMAIN after) \ (DOMAIN before)
                                 \subseteq {selected_language_code}
                           /\ (~enable_translation \/ IsError(Caption(i, j).caption))
                                 => DOMAIN after = DOMAIN before
      ]_vars

\* C24 witness: a run started by a sidebar change, translation disabled, is in
\* the display loop of a batch that holds a caption with a stored translation.
C24_Witness ==
    /\ pc = "display"
    /\ run_cause = "sidebar"
    /\ ~enable_translation
    /\ \E i \in Images : \E j \in Captions(i) : DOMAIN Caption(i, j).translations # {}

\* how many elements of the sequence of names are the name
Occurrences(names, name) == Cardinality({k \in 1..Len(names) : names[k] = name})

\* C25: when the rerun after a batch replacement is due, the store holds one
\* record per selected file, in uploader order, each with the file's name and
\* content, and the Generator has been called once for each, also when two
\* selected files have the same name; and whenever the display loop runs,
\* every name occurs in the store as often as in the selection.
C25_OneRecordPerFile ==
    /\ JustLoaded
          => /\ Len(uploaded_images_data) = Len(uploader.files)
             /\ Len(gen_log) = Len(uploader.files)
             /\ \A k \in 1..Len(uploader.files) :
                   /\ uploaded_images_data[k].file_name = uploader.files[k].name
                   /\ uploaded_images_data[k].image_data = uploader.files[k].size
                   /\ gen_log[k].img = k
    /\ pc = "display"
          => /\ Len(uploaded_images_data) = Len(uploader.files)
             /\ \A k \in 1..Len(uploader.files) :
                   Occurrences(stored_file_names(uploaded_images_data),
                               uploader.files[k].name)
                      = Occurrences(current_file_names(uploader.files),
                                    uploader.files[k].name)

\* C25 witness: a batch of one file has been replaced by a selection of two
\* files that share its name, and the rerun is due.
C25_Witness ==
    /\ JustLoaded
    /\ events >= 2
    /\ Len(uploader.files) = 2
    /\ uploader.files[1].name = uploader.files[2].name
    /\ uploader.files[1].size # uploader.files[2].size
    /\ Len(uploaded_images_data) = 2

=============================================================================
